---- MODULE Spec2Model ----
(***************************************************************************)
(* Link target resolution of the Popups extension (module "title"):        *)
(* isOwnPageAnchorLink, getTitleInfo, isValid and fromElement, applied to  *)
(* one anchor element whose title attribute and jQuery data slot           *)
(* 'foreignTitleInfo' change over time.                                    *)
(*                                                                         *)
(* Strings are sequences of one-character strings.  An optional value is   *)
(* <<>> (undefined / null) or <<v>>.  JavaScript values that a function    *)
(* returns are records [kind, title, apiUrl, mwTitle].                     *)
(***************************************************************************)
EXTENDS Integers, Sequences, FiniteSets, TLC

VARIABLES el, title, slot, cfg, op, ret, info, arg, computes, writes, firstRet,
          retShared, retAgain

vars == <<el, title, slot, cfg, op, ret, info, arg, computes, writes, firstRet,
          retShared, retAgain>>

(* ---------------------------------------------------------------------- *)
(* Bounds                                                                  *)
(* ---------------------------------------------------------------------- *)
(* how often the interwiki classification of the element may be computed   *)
(* before the model stops calling                                          *)
MaxComputes == 2

(* ---------------------------------------------------------------------- *)
(* JavaScript values                                                       *)
(* ---------------------------------------------------------------------- *)
Val(k, t, a, m) == [kind |-> k, title |-> t, apiUrl |-> a, mwTitle |-> m]

Undefined == Val("undefined", <<>>, <<>>, <<>>)
Null == Val("null", <<>>, <<>>, <<>>)
False == Val("false", <<>>, <<>>, <<>>)
Thrown == Val("throw", <<>>, <<>>, <<>>)
None == Val("none", <<>>, <<>>, <<>>)

Truthy(v) == v.kind = "object"

(* ---------------------------------------------------------------------- *)
(* String helpers                                                          *)
(* ---------------------------------------------------------------------- *)
IndexOf(s, c) ==
    IF \E i \in 1..Len(s) : s[i] = c
    THEN CHOOSE i \in 1..Len(s) : s[i] = c /\ \A j \in 1..(i - 1) : s[j] # c
    ELSE 0

(* Only({ F(x) : x \in {e} }) is F applied to the value of e, with e       *)
(* evaluated once                                                          *)
Only(S) == CHOOSE x \in S : TRUE

StartsAt(s, i, p) ==
    /\ i + Len(p) - 1 <= Len(s)
    /\ \A j \in 1..Len(p) : s[i + j - 1] = p[j]

(* ---------------------------------------------------------------------- *)
(* Host capabilities the module calls                                      *)
(* ---------------------------------------------------------------------- *)

(* decodeURIComponent: "%" followed by two hex digits is one escape; a "%" *)
(* without them is malformed and makes the call throw.                     *)
HexPairs == { <<"4", "1">>, <<"3", "A">> }

Unescape(pair) == IF pair = <<"4", "1">> THEN "A" ELSE ":"

ValidEscapeAt(s, i) == i + 2 <= Len(s) /\ <<s[i + 1], s[i + 2]>> \in HexPairs

Malformed(s) == \E i \in 1..Len(s) : s[i] = "%" /\ ~ValidEscapeAt(s, i)

RECURSIVE DecodeFrom(_, _)
DecodeFrom(s, i) ==
    IF i > Len(s) THEN <<>>
    ELSE IF s[i] = "%"
    THEN <<Unescape(<<s[i + 1], s[i + 2]>>)>> \o DecodeFrom(s, i + 3)
    ELSE <<s[i]>> \o DecodeFrom(s, i + 1)

DecodeURIComponent(s) ==
    IF Malformed(s) THEN [threw |-> TRUE, val |-> <<>>]
    ELSE [threw |-> FALSE, val |-> DecodeFrom(s, 1)]

(* mw.Title.newFromText: the page-title grammar.  A recognised prefix      *)
(* before the first ":" selects the namespace, anything else is in the     *)
(* main namespace 0; the text after the first "#" is the fragment; an      *)
(* empty text, an illegal character in the page name, or a namespace       *)
(* prefix with no page name is rejected with null.                         *)
NamespaceIds == (<<"T">> :> 1) @@ (<<"U">> :> 2)

IllegalTitleChars == {"<", "|"}

MwTitle(ns, t, f) == [namespace |-> ns, title |-> t, fragment |-> f]

NewFromText(text) ==
    IF text = <<>> THEN <<>>
    ELSE
      LET c == IndexOf(text, ":")
          hasNs == c > 0 /\ SubSeq(text, 1, c - 1) \in DOMAIN NamespaceIds
          ns == IF hasNs THEN NamespaceIds[SubSeq(text, 1, c - 1)] ELSE 0
          rest == IF hasNs THEN SubSeq(text, c + 1, Len(text)) ELSE text
          h == IndexOf(rest, "#")
          main == IF h > 0 THEN SubSeq(rest, 1, h - 1) ELSE rest
          frag == IF h > 0 THEN <<SubSeq(rest, h + 1, Len(rest))>> ELSE <<>>
      IN  IF \/ \E i \in 1..Len(main) : main[i] \in IllegalTitleChars
             \/ (main = <<>> /\ ns # 0)
             \/ (main # <<>> /\ main[1] = ":")
          THEN <<>>
          ELSE <<MwTitle(ns, main, frag)>>

(* mw.util.escapeRegExp: every regular-expression metacharacter gets a     *)
(* backslash in front.                                                     *)
RegExpMeta == {"\\", "{", "}", "(", ")", "|", ".", "?", "*", "+", "-", "^", "$", "[", "]"}

RECURSIVE EscapeRegExp(_)
EscapeRegExp(s) ==
    IF s = <<>> THEN <<>>
    ELSE (IF Head(s) \in RegExpMeta THEN <<"\\", Head(s)>> ELSE <<Head(s)>>)
         \o EscapeRegExp(Tail(s))

(* String.prototype.replace( '\\$1', '([^?#]+)' ): the first occurrence of *)
(* the three characters \ $ 1 becomes the capturing group, written here as *)
(* the single pattern item "([^?#]+)".                                     *)
Group == "([^?#]+)"

ReplacePlaceholder(p) ==
    IF \E i \in 1..Len(p) : StartsAt(p, i, <<"\\", "$", "1">>)
    THEN LET i == CHOOSE k \in 1..Len(p) :
                    /\ StartsAt(p, k, <<"\\", "$", "1">>)
                    /\ \A j \in 1..(k - 1) : ~StartsAt(p, j, <<"\\", "$", "1">>)
         IN  SubSeq(p, 1, i - 1) \o <<Group>> \o SubSeq(p, i + 3, Len(p))
    ELSE p

(* The literal text a pattern without group denotes: "\c" stands for c.    *)
RECURSIVE Literal(_)
Literal(p) ==
    IF p = <<>> THEN <<>>
    ELSE IF Head(p) = "\\" /\ Len(p) >= 2
    THEN <<p[2]>> \o Literal(SubSeq(p, 3, Len(p)))
    ELSE <<Head(p)>> \o Literal(Tail(p))

(* a non-empty run of characters other than ? and # *)
GroupRun(s, from, len) ==
    /\ len >= 1
    /\ from + len - 1 <= Len(s)
    /\ \A j \in from..(from + len - 1) : s[j] \notin {"?", "#"}

MatchAt(path, pre, post, i, len) ==
    /\ StartsAt(path, i, pre)
    /\ GroupRun(path, i + Len(pre), len)
    /\ StartsAt(path, i + Len(pre) + len, post)

(* every <<start, length of the run>> of a match *)
Matches(path, pre, post) ==
    { m \in (1..Len(path)) \X (1..Len(path)) : MatchAt(path, pre, post, m[1], m[2]) }

(* the match the engine reports: leftmost start, then the longest run *)
FirstMatch(ms) ==
    CHOOSE m \in ms : \A n \in ms : m[1] < n[1] \/ (m[1] = n[1] /\ m[2] >= n[2])

(* matches[ 1 ] of the reported match; <<>> when nothing matches *)
Captured(path, pre, ms) ==
    IF ms = {} THEN <<>>
    ELSE Only({ <<SubSeq(path, m[1] + Len(pre), m[1] + Len(pre) + m[2] - 1)>> :
                m \in {FirstMatch(ms)} })

(* new RegExp( pattern ).exec( path ) for a pattern with one group: the    *)
(* leftmost position where the text before the group, a longest non-empty  *)
(* run without ? and #, and the text after the group occur in a row.       *)
(* Result: <<>> for no match, else <<captured run>>.                       *)
RegExpExec(pattern, path) ==
    IF IndexOf(pattern, Group) = 0 THEN <<>>
    ELSE Only({ Only({ Captured(path, pre, ms) : ms \in {Matches(path, pre, post)} }) :
                pre \in {Literal(SubSeq(pattern, 1, IndexOf(pattern, Group) - 1))},
                post \in {Literal(SubSeq(pattern, IndexOf(pattern, Group) + 1,
                                         Len(pattern)))} })

(* new mw.Uri( link.href ): throws on an href it cannot parse; otherwise   *)
(* host (without port), path, query (parameter name -> value) and raw      *)
(* fragment.  The query strings of the model name each parameter once.     *)
QueryMap(search) ==
    [n \in { search[i][1] : i \in 1..Len(search) } |->
        search[CHOOSE i \in 1..Len(search) : search[i][1] = n][2]]

Uri(link) ==
    [threw |-> ~link.uriOk,
     host |-> link.hostname,
     path |-> link.pathname,
     query |-> QueryMap(link.search),
     fragment |-> link.fragment]

(* The DOM's view of the same anchor: host includes the port, hash is the  *)
(* fragment with its leading "#", or empty when there is no fragment.      *)
Host(l) == <<l.hostname, l.port>>

Hash(link) == IF link.fragment = <<>> THEN <<>> ELSE <<"#">> \o link.fragment

(* ---------------------------------------------------------------------- *)
(* The title module                                                        *)
(* ---------------------------------------------------------------------- *)

isOwnPageAnchorLink(link, location) ==
    /\ Hash(link) # <<>>
    /\ Host(link) = Host(location)
    /\ link.pathname = location.pathname
    /\ link.search = location.search

(* link.title.split( ':' ), shift() and join( ':' ) *)
InterwikiPrefix(t) ==
    IF IndexOf(t, ":") = 0 THEN t ELSE SubSeq(t, 1, IndexOf(t, ":") - 1)

ForeignTitle(t) ==
    IF IndexOf(t, ":") = 0 THEN <<>> ELSE SubSeq(t, IndexOf(t, ":") + 1, Len(t))

(* config.get( 'wgPopupsForeignApiUrls' )[ interwikiPrefix ] *)
ForeignApiUrl(config, prefix) ==
    IF prefix \in DOMAIN config.wgPopupsForeignApiUrls
    THEN <<config.wgPopupsForeignApiUrls[prefix]>>
    ELSE <<>>

(* the interwiki step of getTitleInfo: the value returned, the data slot   *)
(* afterwards, whether the title attribute was read and the slot written,  *)
(* and whether the value returned is the object the slot holds             *)
Interwiki(linkTitle, data, config) ==
    IF ~Truthy(data)
    THEN LET foreignApiUrl == ForeignApiUrl(config, InterwikiPrefix(linkTitle))
             foreignInfo ==
                 IF foreignApiUrl # <<>> /\ foreignApiUrl[1] # ""
                 THEN Val("object", <<ForeignTitle(linkTitle)>>, foreignApiUrl, <<>>)
                 ELSE False
         IN  [ret |-> foreignInfo, slot |-> foreignInfo, computed |-> 1, wrote |-> 1,
              shared |-> TRUE]
    ELSE [ret |-> data, slot |-> data, computed |-> 0, wrote |-> 0, shared |-> TRUE]

(* the pretty-URL step with the captured text used undecoded *)
PrettyTitleRaw(path, config) ==
    RegExpExec(ReplacePlaceholder(EscapeRegExp(config.wgArticlePath)), path)

(* title = matches && decodeURIComponent( matches[ 1 ] ) in its try/catch  *)
DecodedMatch(matches) ==
    IF matches = <<>> \/ Malformed(matches[1]) THEN <<>>
    ELSE <<DecodeURIComponent(matches[1]).val>>

(* the pretty-URL step; <<>> when it yields no title *)
PrettyTitle(path, config) ==
    Only({ DecodedMatch(matches) :
           matches \in {RegExpExec(ReplacePlaceholder(EscapeRegExp(config.wgArticlePath)),
                                   path)} })

(* the value returned for a title t (<<>> when there is none) *)
TitleInfo(t, fragment) ==
    IF t = <<>> \/ t[1] = <<>> THEN Undefined
    ELSE Val("object",
             <<t[1] \o (IF fragment # <<>> THEN <<"#">> \o fragment ELSE <<>>)>>,
             <<>>, <<>>)

(* the title taken from the URL by the number of its query parameters *)
UrlTitle(linkHref, queryLength, config) ==
    IF queryLength = 0 THEN PrettyTitle(linkHref.path, config)
    ELSE IF queryLength = 1 /\ "title" \in DOMAIN linkHref.query
    THEN <<linkHref.query["title"]>>
    ELSE <<>>

(* the later steps without the test for external links *)
LocalTitleInfoAnyHost(linkHref, location, config) ==
    Only({ TitleInfo(t, linkHref.fragment) :
           t \in {UrlTitle(linkHref, Cardinality(DOMAIN linkHref.query), config)} })

(* the later steps with the query-parameter count ignored: a title         *)
(* parameter is used whatever else the query string holds                  *)
LocalTitleInfoAnyQuery(linkHref, location, config) ==
    IF linkHref.host # location.hostname THEN Undefined
    ELSE Only({ TitleInfo(t, linkHref.fragment) :
                t \in {IF DOMAIN linkHref.query = {}
                       THEN PrettyTitle(linkHref.path, config)
                       ELSE IF "title" \in DOMAIN linkHref.query
                       THEN <<linkHref.query["title"]>>
                       ELSE <<>>} })

(* the steps of getTitleInfo after the interwiki step *)
LocalTitleInfo(linkHref, location, config) ==
    IF linkHref.host # location.hostname THEN Undefined
    ELSE Only({ TitleInfo(t, linkHref.fragment) :
                t \in {UrlTitle(linkHref, Cardinality(DOMAIN linkHref.query), config)} })

(* getTitleInfo with the host comparison moved before the interwiki step *)
AfterUriHostFirst(linkHref, link, linkTitle, data, config) ==
    IF linkHref.threw \/ linkHref.host # config.location.hostname
    THEN [ret |-> Undefined, slot |-> data, computed |-> 0, wrote |-> 0,
          shared |-> FALSE]
    ELSE IF "extiw" \in link.classList
    THEN Interwiki(linkTitle, data, config)
    ELSE [ret |-> LocalTitleInfo(linkHref, config.location, config),
          slot |-> data, computed |-> 0, wrote |-> 0, shared |-> FALSE]

(* getTitleInfo once new mw.Uri( link.href ) has run *)
AfterUri(linkHref, link, linkTitle, data, config) ==
    IF linkHref.threw
    THEN [ret |-> Undefined, slot |-> data, computed |-> 0, wrote |-> 0,
          shared |-> FALSE]
    ELSE IF "extiw" \in link.classList
    THEN Interwiki(linkTitle, data, config)
    ELSE [ret |-> LocalTitleInfo(linkHref, config.location, config),
          slot |-> data, computed |-> 0, wrote |-> 0, shared |-> FALSE]

getTitleInfo(link, linkTitle, data, config) ==
    Only({ AfterUri(linkHref, link, linkTitle, data, config) : linkHref \in {Uri(link)} })

(* isValid with the content-namespace test inverted *)
isValidInverted(t, contentNamespaces) ==
    IF t = <<>> \/ t[1] = <<>> THEN <<>>
    ELSE LET mwTitle == NewFromText(t[1])
         IN  IF mwTitle # <<>> /\ mwTitle[1].namespace \notin contentNamespaces
             THEN mwTitle
             ELSE <<>>

(* isValid without the content-namespace test *)
isValidAnyNamespace(t, contentNamespaces) ==
    IF t = <<>> \/ t[1] = <<>> THEN <<>> ELSE NewFromText(t[1])

isValid(t, contentNamespaces) ==
    IF t = <<>> \/ t[1] = <<>> THEN <<>>
    ELSE LET mwTitle == NewFromText(t[1])
         IN  IF mwTitle # <<>> /\ mwTitle[1].namespace \in contentNamespaces
             THEN mwTitle
             ELSE <<>>

(* the self-link step without its try/catch: a decoding fault escapes *)
SelfLinkNoCatch(link, config) ==
    LET d == DecodeURIComponent(Hash(link))
    IN  IF d.threw THEN Thrown
        ELSE Val("object", <<>>, <<>>, NewFromText(config.wgPageName \o d.val))

(* the self-link step of fromElement, inside its try/catch *)
SelfLink(link, config) ==
    LET d == DecodeURIComponent(Hash(link))
    IN  IF d.threw THEN Null
        ELSE Val("object", <<>>, <<>>, NewFromText(config.wgPageName \o d.val))

(* the later steps with every title checked against the content           *)
(* namespaces, interwiki titles included                                   *)
ValidateAlways(titleInfo, config) ==
    IF titleInfo.kind = "throw" THEN Thrown
    ELSE IF ~Truthy(titleInfo) THEN Null
    ELSE LET mwTitle == isValid(titleInfo.title, config.wgContentNamespaces)
         IN  IF mwTitle = <<>> THEN Null
             ELSE [titleInfo EXCEPT !.mwTitle = mwTitle]

(* the steps of fromElement after getTitleInfo returned titleInfo; the     *)
(* object returned is titleInfo itself with mwTitle set on it              *)
Validate(titleInfo, config) ==
    IF titleInfo.kind = "throw" THEN Thrown
    ELSE IF ~Truthy(titleInfo) THEN Null
    ELSE LET mwTitle == IF titleInfo.apiUrl # <<>>
                        THEN NewFromText(titleInfo.title[1])
                        ELSE isValid(titleInfo.title, config.wgContentNamespaces)
         IN  IF mwTitle = <<>> THEN Null
             ELSE [titleInfo EXCEPT !.mwTitle = mwTitle]

(* what fromElement returns and leaves in the data slot, given the result  *)
(* r of getTitleInfo and the value res of its later steps.  shared: the    *)
(* object returned is the one the data slot holds, with mwTitle assigned   *)
(* on it; again: that object was in the slot before the call and carried   *)
(* an mwTitle, which only an earlier fromElement call assigns before it    *)
(* returns the object.                                                     *)
Returned(r, res) ==
    [ret |-> res, info |-> r.ret,
     slot |-> IF res.kind = "object" /\ r.shared THEN res ELSE r.slot,
     computed |-> r.computed, wrote |-> r.wrote,
     shared |-> res.kind = "object" /\ r.shared,
     again |-> res.kind = "object" /\ r.shared /\ r.computed = 0
               /\ r.ret.mwTitle # <<>>]

AfterTitleInfo(r, config) ==
    Only({ Returned(r, res) : res \in {Validate(r.ret, config)} })

(* fromElement with the interwiki and ordinary steps tried before the      *)
(* self-link step                                                          *)
SelfLinkAfter(r, link, config) ==
    IF r.ret.kind # "object" /\ isOwnPageAnchorLink(link, config.location)
    THEN [ret |-> SelfLink(link, config), info |-> None,
          slot |-> r.slot, computed |-> r.computed, wrote |-> r.wrote,
          shared |-> FALSE, again |-> FALSE]
    ELSE r

fromElementSelfLinkLast(link, linkTitle, data, config) ==
    Only({ SelfLinkAfter(AfterTitleInfo(r, config), link, config) :
           r \in {getTitleInfo(link, linkTitle, data, config)} })

fromElement(link, linkTitle, data, config) ==
    IF isOwnPageAnchorLink(link, config.location)
    THEN [ret |-> SelfLink(link, config), info |-> None,
          slot |-> data, computed |-> 0, wrote |-> 0,
          shared |-> FALSE, again |-> FALSE]
    ELSE Only({ AfterTitleInfo(r, config) :
                r \in {getTitleInfo(link, linkTitle, data, config)} })

(* ---------------------------------------------------------------------- *)
(* Elements, configurations and inputs of the model                        *)
(* ---------------------------------------------------------------------- *)
(* the current document: an article under its pretty URL, or the same      *)
(* page shown through index.php with two query parameters                  *)
Location == [hostname |-> "wiki", port |-> "", pathname |-> <<"/", "w", "/", "F">>,
             search |-> <<>>]

QueryLocation == [hostname |-> "wiki", port |-> "", pathname |-> <<"/", "x">>,
                  search |-> <<<<"title", <<"F">>>>, <<"action", <<"e">>>>>>]

Hosts == { <<"wiki", "">>, <<"wiki", "8080">>, <<"other", "">> }

Paths == { <<"/", "w", "/", "F">>,
           <<"/", "w", "/", "T", ":", "F">>,
           <<"/", "w", "/", "%", "4", "1">>,
           <<"/", "w", "/", "%", "z">>,
           <<"/", "w", "/", "<">>,
           <<"/", "w", "/", "F", "/", "v">>,
           <<"/", "x", "/", "w", "/", "F">>,
           <<"/", "x">> }

Searches == { <<<<"title", <<"F">>>>>>,
              <<<<"title", <<"T", ":", "F">>>>>>,
              <<<<"title", <<>>>>>>,
              <<<<"action", <<"e">>>>>>,
              <<<<"title", <<"F">>>>, <<"action", <<"e">>>>>>,
              <<<<"title", <<"F">>>>, <<"oldid", <<"5">>>>>> }

Fragments == { <<>>, <<"s">> }

BadFragment == <<"%">>

Titles == { <<"w", ":", "T", ":", "F">>, <<"x", ":", "F">>, <<"w", ":">>, <<>> }

ClassLists == { {}, {"extiw"} }

Link(ok, cl, h, p, q, f) ==
    [uriOk |-> ok, classList |-> cl, hostname |-> h[1], port |-> h[2],
     pathname |-> p, search |-> q, fragment |-> f]

(* hrefs mw.Uri parses: every pretty path and every query string; hrefs    *)
(* it rejects: one of each shape; and hrefs with a fragment that cannot be *)
(* percent-decoded                                                         *)
Links ==
    { Link(TRUE, cl, h, p, <<>>, f) :
        cl \in ClassLists, h \in Hosts, p \in Paths, f \in Fragments }
    \cup
    { Link(TRUE, cl, h, <<"/", "x">>, q, f) :
        cl \in ClassLists, h \in Hosts, q \in Searches, f \in Fragments }
    \cup
    { Link(FALSE, cl, h, l.pathname, l.search, f) :
        cl \in ClassLists, h \in Hosts, l \in {Location, QueryLocation}, f \in Fragments }
    \cup
    { Link(ok, cl, h, Location.pathname, <<>>, BadFragment) :
        ok \in BOOLEAN, cl \in ClassLists, h \in Hosts }

Configs ==
    [location : {Location, QueryLocation},
     wgPageName : { <<"F">>, <<"T", ":", "F">> },
     wgArticlePath : { <<"/", "w", "/", "$", "1">>, <<"/", "w", "/", "$", "1", "/", "v">> },
     wgContentNamespaces : { {0}, {0, 2} },
     wgPopupsForeignApiUrls : { (<<"w">> :> "api.w") }]
    \cup
    (* a page whose name mw.Title.newFromText rejects *)
    [location : {Location},
     wgPageName : { <<"<">> },
     wgArticlePath : { <<"/", "w", "/", "$", "1">> },
     wgContentNamespaces : { {0} },
     wgPopupsForeignApiUrls : { (<<"w">> :> "api.w") }]

(* title texts handed to isValid directly: absent, or any text of up to    *)
(* MaxText characters                                                      *)
MaxText == 3

TextChars == {"F", "T", ":", "#", "<"}

RECURSIVE Texts(_)
Texts(n) ==
    IF n = 0 THEN { <<>> }
    ELSE Texts(n - 1) \cup { Append(t, c) : t \in Texts(n - 1), c \in TextChars }

NamespaceSets == { {}, {0}, {1}, {0, 1} }

NoArg == [title |-> <<>>, contentNamespaces |-> {}]

Args == [title : { <<>> } \cup { <<t>> : t \in Texts(MaxText) },
         contentNamespaces : NamespaceSets]

DefaultConfig ==
    [location |-> Location, wgPageName |-> <<"F">>,
     wgArticlePath |-> <<"/", "w", "/", "$", "1">>, wgContentNamespaces |-> {0},
     wgPopupsForeignApiUrls |-> (<<"w">> :> "api.w")]

DefaultLink == Link(TRUE, {}, <<"wiki", "">>, <<"/", "w", "/", "F">>, <<>>, <<>>)

(* ---------------------------------------------------------------------- *)
(* State machine                                                           *)
(* ---------------------------------------------------------------------- *)
InitLink ==
    /\ el \in Links
    /\ title \in Titles
    /\ cfg \in Configs
    /\ arg = NoArg

InitValidate ==
    /\ el = DefaultLink
    /\ title = <<>>
    /\ cfg = DefaultConfig
    /\ arg \in Args

Init ==
    /\ (InitLink \/ InitValidate)
    /\ slot = Undefined
    /\ op = "init"
    /\ ret = None
    /\ info = None
    /\ computes = 0
    /\ writes = 0
    /\ firstRet = None
    /\ retShared = FALSE
    /\ retAgain = FALSE

(* a handler of the page calls title.fromElement( this, mw.config ) *)
FromElementCall ==
    /\ computes < MaxComputes
    /\ \E r \in {fromElement(el, title, slot, cfg)} :
           /\ ret' = r.ret
           /\ info' = r.info
           /\ slot' = r.slot
           /\ computes' = computes + r.computed
           /\ writes' = writes + r.wrote
           /\ firstRet' = IF firstRet = None THEN r.ret ELSE firstRet
           /\ retShared' = r.shared
           /\ retAgain' = r.again
    /\ op' = "fromElement"
    /\ UNCHANGED <<el, title, cfg, arg>>

(* a direct call of the exported getTitleInfo( link, config ) *)
GetTitleInfoCall ==
    /\ computes < MaxComputes
    /\ \E r \in {getTitleInfo(el, title, slot, cfg)} :
           /\ info' = r.ret
           /\ slot' = r.slot
           /\ computes' = computes + r.computed
           /\ writes' = writes + r.wrote
    /\ ret' = None
    /\ retShared' = FALSE
    /\ retAgain' = FALSE
    /\ op' = "getTitleInfo"
    /\ UNCHANGED <<el, title, cfg, arg, firstRet>>

(* a direct call of the exported isValid( title, contentNamespaces ) *)
IsValidCall ==
    /\ \E mwTitle \in {isValid(arg.title, arg.contentNamespaces)} :
           ret' = IF mwTitle = <<>> THEN Null ELSE Val("object", <<>>, <<>>, mwTitle)
    /\ info' = None
    /\ retShared' = FALSE
    /\ retAgain' = FALSE
    /\ op' = "isValid"
    /\ UNCHANGED <<el, title, slot, cfg, arg, computes, writes, firstRet>>

(* the page changes or blanks the element's title attribute *)
SetTitle ==
    /\ \E t \in Titles : t # title /\ title' = t
    /\ op' = "setTitle"
    /\ ret' = None
    /\ info' = None
    /\ retShared' = FALSE
    /\ retAgain' = FALSE
    /\ UNCHANGED <<el, slot, cfg, arg, computes, writes, firstRet>>

Next == FromElementCall \/ GetTitleInfoCall \/ IsValidCall \/ SetTitle

Spec == Init /\ [][Next]_vars

(* ---------------------------------------------------------------------- *)
(* Properties                                                              *)
(* ---------------------------------------------------------------------- *)
SelfLinkEl == isOwnPageAnchorLink(el, cfg.location)

Extiw == "extiw" \in el.classList

Resolved == op = "fromElement"

(* C1: fromElement never raises: every call returns null or an object, and *)
(* a failure of URL parsing or of percent-decoding never escapes, neither  *)
(* from fromElement nor from getTitleInfo.                                 *)
C1_NeverThrows ==
    /\ ret.kind # "throw"
    /\ info.kind # "throw"
    /\ Resolved => ret.kind \in {"null", "object"}
    /\ op = "getTitleInfo" => info.kind \in {"undefined", "false", "object"}

(* a self-link whose hash cannot be decoded was resolved, and the call     *)
(* returned null                                                           *)
C1_Witness ==
    /\ Resolved
    /\ SelfLinkEl
    /\ DecodeURIComponent(Hash(el)).threw
    /\ ret = Null

(* C2 as stated: every object returned without apiUrl has a title in a     *)
(* content namespace, the self-link branch included.                       *)
C2_Original ==
    (Resolved /\ ret.kind = "object" /\ ret.apiUrl = <<>>) =>
        /\ ret.mwTitle # <<>>
        /\ ret.mwTitle[1].namespace \in cfg.wgContentNamespaces

(* C2 amended: every object returned without apiUrl for an element that is *)
(* not a self-link has a title in a content namespace.                     *)
C2_ContentNamespace ==
    (Resolved /\ ~SelfLinkEl /\ ret.kind = "object" /\ ret.apiUrl = <<>>) =>
        /\ ret.mwTitle # <<>>
        /\ ret.mwTitle[1].namespace \in cfg.wgContentNamespaces

(* an ordinary link was resolved to a title in a content namespace *)
C2_Witness ==
    /\ Resolved
    /\ ~SelfLinkEl
    /\ ret.kind = "object"
    /\ ret.apiUrl = <<>>
    /\ ret.mwTitle # <<>>
    /\ ret.mwTitle[1].namespace \in cfg.wgContentNamespaces

(* C3 as stated: over any sequence of calls on the element, interleaved    *)
(* with changes of its title attribute, the interwiki classification is    *)
(* computed from the title attribute at most once and the data slot is     *)
(* written at most once, a stored false included.                          *)
C3_ComputedOnce == computes <= 1 /\ writes <= 1

(* C4 as stated: for an extiw element that is not a self-link, every later *)
(* fromElement call returns what the first call returned, however the      *)
(* title attribute changed in between.                                     *)
C4_CacheStable ==
    (Resolved /\ Extiw /\ ~SelfLinkEl) => ret = firstRet

(* the number of query parameters of the element's href *)
QueryCount == Len(el.search)

AmbiguousQuery ==
    \/ QueryCount > 1
    \/ (QueryCount = 1 /\ el.search[1][1] # "title")

(* C5 as stated: fromElement returns null for every element whose href has *)
(* more than one query parameter, or one parameter not named title.        *)
C5_Original == (Resolved /\ AmbiguousQuery) => ret = Null

(* C5 amended: fromElement returns null for every element that is not a    *)
(* self-link, lacks the extiw class, and whose href has more than one      *)
(* query parameter, or one parameter not named title.                      *)
C5_AmbiguousQueryNull ==
    (Resolved /\ ~SelfLinkEl /\ ~Extiw /\ AmbiguousQuery) => ret = Null

(* a same-host link with the parameters title and action was resolved to   *)
(* null although its title parameter alone names a content page            *)
C5_Witness ==
    /\ Resolved
    /\ ~SelfLinkEl
    /\ ~Extiw
    /\ el.uriOk
    /\ el.hostname = cfg.location.hostname
    /\ el.search = <<<<"title", <<"F">>>>, <<"action", <<"e">>>>>>
    /\ ret = Null

(* C6: for every self-link, fromElement returns null when the hash cannot  *)
(* be percent-decoded, and otherwise an object without apiUrl whose title  *)
(* is parsed from wgPageName followed by the decoded hash, whatever the    *)
(* class list, the data slot, the href and the page's namespace.           *)
C6_SelfLink ==
    (Resolved /\ SelfLinkEl) =>
        LET d == DecodeURIComponent(<<"#">> \o el.fragment)
        IN  IF d.threw THEN ret = Null
            ELSE /\ ret.kind = "object"
                 /\ ret.apiUrl = <<>>
                 /\ ret.mwTitle = NewFromText(cfg.wgPageName \o d.val)
                 /\ info = None

(* a self-link with the extiw class, a known interwiki prefix in its title *)
(* attribute and an href mw.Uri rejects, on a page outside the content     *)
(* namespaces, was resolved to the page's own title with the fragment      *)
C6_Witness ==
    /\ Resolved
    /\ SelfLinkEl
    /\ Extiw
    /\ ~el.uriOk
    /\ title = <<"w", ":", "T", ":", "F">>
    /\ cfg.wgPageName = <<"T", ":", "F">>
    /\ 1 \notin cfg.wgContentNamespaces
    /\ ret.kind = "object"
    /\ ret.mwTitle = <<MwTitle(1, <<"F">>, <<el.fragment>>)>>

(* C7: for an extiw element that is not a self-link and whose              *)
(* classification carries an apiUrl, fromElement returns that apiUrl and   *)
(* the title parsed from the classification's title, whatever namespace    *)
(* the title parses to; the content namespaces are not consulted.          *)
C7_InterwikiUnvalidated ==
    (Resolved /\ Extiw /\ ~SelfLinkEl /\ info.kind = "object" /\ info.apiUrl # <<>>
       /\ NewFromText(info.title[1]) # <<>>) =>
        /\ ret.kind = "object"
        /\ ret.apiUrl = info.apiUrl
        /\ ret.title = info.title
        /\ ret.mwTitle = NewFromText(info.title[1])

(* an interwiki link was resolved to a title whose namespace is not a      *)
(* content namespace                                                       *)
C7_Witness ==
    /\ Resolved
    /\ Extiw
    /\ ~SelfLinkEl
    /\ ret.kind = "object"
    /\ ret.apiUrl = <<"api.w">>
    /\ ret.mwTitle # <<>>
    /\ ret.mwTitle[1].namespace \notin cfg.wgContentNamespaces

PlaceholderAt(t) == CHOOSE i \in 1..Len(t) : StartsAt(t, i, <<"$", "1">>)

TemplatePre(t) == SubSeq(t, 1, PlaceholderAt(t) - 1)

TemplatePost(t) == SubSeq(t, PlaceholderAt(t) + 2, Len(t))

(* the path is the template with $1 replaced by a non-empty text without   *)
(* ? and #                                                                 *)
HasTemplateForm(path, t) ==
    /\ Len(path) > Len(TemplatePre(t)) + Len(TemplatePost(t))
    /\ StartsAt(path, 1, TemplatePre(t))
    /\ StartsAt(path, Len(path) - Len(TemplatePost(t)) + 1, TemplatePost(t))
    /\ \A i \in 1..Len(path) : path[i] \notin {"?", "#"}

Placeholder(path, t) ==
    SubSeq(path, Len(TemplatePre(t)) + 1, Len(path) - Len(TemplatePost(t)))

(* the title object getTitleInfo returns for a raw title and a fragment *)
Composed(raw, fragment) ==
    IF raw = <<>> THEN Undefined
    ELSE Val("object",
             <<IF fragment = <<>> THEN raw ELSE raw \o <<"#">> \o fragment>>,
             <<>>, <<>>)

(* a call reached the URL steps of getTitleInfo for a same-host link       *)
(* without the extiw class                                                 *)
LocalCall ==
    /\ op = "getTitleInfo" \/ (Resolved /\ ~SelfLinkEl)
    /\ ~Extiw
    /\ el.uriOk
    /\ el.hostname = cfg.location.hostname

(* C9: on a same-host link without the extiw class getTitleInfo agrees     *)
(* with the reference: no query parameter and a path of the template's     *)
(* form give the percent-decoded placeholder text, or nothing when the     *)
(* text has a malformed escape; exactly one parameter named title gives    *)
(* its value as is; an empty or absent raw title gives undefined; else the *)
(* title is the raw title, with "#" and the fragment when there is a       *)
(* fragment, and no apiUrl is set.                                         *)
C9_TitleExtraction ==
    LocalCall =>
        /\ (QueryCount = 0 /\ HasTemplateForm(el.pathname, cfg.wgArticlePath)) =>
              LET d == DecodeURIComponent(Placeholder(el.pathname, cfg.wgArticlePath))
              IN  info = IF d.threw THEN Undefined ELSE Composed(d.val, el.fragment)
        /\ (QueryCount = 1 /\ el.search[1][1] = "title") =>
              info = Composed(el.search[1][2], el.fragment)

(* getTitleInfo was called on a pretty URL with an escaped title and a     *)
(* fragment and returned the decoded title followed by the fragment        *)
C9_Witness ==
    /\ op = "getTitleInfo"
    /\ LocalCall
    /\ el.pathname = <<"/", "w", "/", "%", "4", "1">>
    /\ el.search = <<>>
    /\ el.fragment = <<"s">>
    /\ info = Val("object", <<<<"A", "#", "s">>>>, <<>>, <<>>)

(* C10: isValid returns null for an empty or absent text, null when the    *)
(* title grammar rejects the text, the parsed title when its namespace is  *)
(* one of the content namespaces and null otherwise; and an ordinary       *)
(* same-site link resolves to an object exactly when its extracted title   *)
(* parses into a content namespace.                                        *)
C10_IsValid ==
    /\ op = "isValid" =>
          LET parsed == IF arg.title = <<>> THEN <<>> ELSE NewFromText(arg.title[1])
          IN  /\ (arg.title = <<>> \/ arg.title[1] = <<>>) => ret = Null
              /\ parsed = <<>> => ret = Null
              /\ (parsed # <<>> /\ parsed[1].namespace \in arg.contentNamespaces) =>
                    ret = Val("object", <<>>, <<>>, parsed)
              /\ (parsed # <<>> /\ parsed[1].namespace \notin arg.contentNamespaces) =>
                    ret = Null
    /\ (Resolved /\ ~SelfLinkEl /\ ~Extiw) =>
          (ret # Null <=>
              /\ info.kind = "object"
              /\ NewFromText(info.title[1]) # <<>>
              /\ NewFromText(info.title[1])[1].namespace \in cfg.wgContentNamespaces)

(* isValid was called with a title of a namespace that is not among the    *)
(* content namespaces handed to it and returned null                       *)
C10_Witness ==
    /\ op = "isValid"
    /\ arg.title = <<<<"T", ":", "F">>>>
    /\ arg.contentNamespaces = {0}
    /\ ret = Null

(* C11 as stated: every object fromElement returns is fresh for that call: *)
(* it is not the object the element's data slot holds, nor an object an    *)
(* earlier call returned, and the call assigns nothing on such an object.  *)
C11_Fresh ==
    (Resolved /\ ret.kind = "object") => (~retShared /\ ~retAgain)

(* The interwiki classification an extiw element has before a call: the    *)
(* title and API URL of the record in its data slot, or else those read    *)
(* from its title attribute and the prefix table; empty when the prefix is *)
(* unknown.                                                                *)
InterwikiRecord ==
    IF slot.kind = "object"
    THEN <<slot.title[1], slot.apiUrl>>
    ELSE IF InterwikiPrefix(title) \in DOMAIN cfg.wgPopupsForeignApiUrls
    THEN <<ForeignTitle(title),
           <<cfg.wgPopupsForeignApiUrls[InterwikiPrefix(title)]>> >>
    ELSE <<>>

(* what the interwiki step alone makes of that classification *)
InterwikiResult ==
    IF InterwikiRecord = <<>> THEN Null
    ELSE IF NewFromText(InterwikiRecord[1]) = <<>> THEN Null
    ELSE Val("object", <<InterwikiRecord[1]>>, InterwikiRecord[2],
             NewFromText(InterwikiRecord[1]))

(* C12 as stated: for an extiw element that is no self-link, whose prefix  *)
(* is known and whose title parses, fromElement never returns null,        *)
(* whatever its href: an href the URL parser rejects and a foreign host    *)
(* included.                                                               *)
C12_Original ==
    (Resolved /\ Extiw /\ ~SelfLinkEl /\ slot.kind # "false"
       /\ InterwikiResult # Null) => ret # Null

(* C12: for an extiw element that is no self-link and whose href the URL   *)
(* parser accepts, the result of fromElement is decided by the interwiki   *)
(* step alone (data slot, title attribute, prefix table), whatever the     *)
(* host, path and query of the href; when the URL parser rejects the href, *)
(* fromElement returns null and leaves the data slot as it was.            *)
C12_InterwikiAlone ==
    [][ (op' = "fromElement" /\ Extiw /\ ~SelfLinkEl) =>
            IF el.uriOk
            THEN ret' = InterwikiResult
            ELSE ret' = Null /\ slot' = slot ]_vars

(* an extiw link to a foreign host, with a path that has not the form of   *)
(* an article path, was resolved through its known prefix                  *)
C12_Witness ==
    /\ Resolved
    /\ Extiw
    /\ ~SelfLinkEl
    /\ el.uriOk
    /\ el.hostname # cfg.location.hostname
    /\ el.pathname = <<"/", "x">>
    /\ ret.kind = "object"
    /\ ret.apiUrl = <<"api.w">>

(* C13 as stated: whenever mw.Title.newFromText fails on the text handed   *)
(* to it, fromElement returns null, in the self-link branch too: no object *)
(* returned by fromElement has a null mwTitle.                             *)
C13_ParsedTitlePresent ==
    (Resolved /\ ret.kind = "object") => ret.mwTitle # <<>>

(* C14 as stated: on a same-host link without the extiw class and without  *)
(* query parameters, a path that has not as a whole the form of            *)
(* wgArticlePath with $1 replaced by a non-empty text without ? and #      *)
(* counts as no match: fromElement returns null.                           *)
C14_WholePathMatch ==
    (Resolved /\ LocalCall /\ QueryCount = 0
       /\ ~HasTemplateForm(el.pathname, cfg.wgArticlePath)) => ret = Null

====
